---- MODULE Spec2Model ----
(***************************************************************************)
(* Model of the simulation playback engine of the rail dashboard:          *)
(*   - SimulationProvider (contexts/SimulationContext.tsx): the session    *)
(*     state bag and the operations runSimulation, runSimulationFromGA,    *)
(*     clearSimulation, setCurrentTime;                                    *)
(*   - SimulationControl (components/simulation/SimulationControl.tsx):    *)
(*     the play / pause / stop / reset handlers, the playback speed and    *)
(*     the setInterval timer created by the auto-play effect.              *)
(*                                                                         *)
(* Conventions.                                                            *)
(*   - A JavaScript value stored in currentTime is a tagged record: the    *)
(*     context's setCurrentTime stores whatever it is handed, a number or  *)
(*     a function, so both kinds of value are represented.                 *)
(*   - playbackSpeed is held in half units (0.5x is 1, 1x is 2, 2x is 4,   *)
(*     5x is 10, 10x is 20) so that every quantity is an integer.          *)
(*   - null is Null for strings and NoData for metrics / network.          *)
(*   - The auto-play effect is re-run as part of the operation that        *)
(*     changes one of its dependencies (React runs the cleanup and the     *)
(*     effect after the render the operation causes, before the timer can  *)
(*     fire again).                                                        *)
(*   - logsRun and lastOp are history variables: the request whose         *)
(*     response installed the current logs, and the last operation.        *)
(*   - query records the last call of a query function of the context (or  *)
(*     the last evaluation of the render's maxLogTime) and what it         *)
(*     returned; a returned log entry is given by its index in state.logs, *)
(*     null by 0, a returned array of entries by the sequence of their     *)
(*     indices.                                                            *)
(*   - Log times are real numbers.  Spec uses whole time units; SpecQuery  *)
(*     counts time in quarter units (Tolerance is the literal 1 of         *)
(*     Math.abs(log.time - time) < 1), so that query times between two     *)
(*     samples are representable.                                          *)
(*   - map is the NetworkMap component (components/operations/             *)
(*     NetworkMap.tsx): its props stations, trains (one train) and         *)
(*     isSimulating, its state trainPositions (a function from the ids of  *)
(*     the trains that have a stored position), and, as history, the last  *)
(*     thing that happened to it and the Date.now() of its last timer      *)
(*     callback.  Positions are pairs <<x, y>>; coordinates are multiples  *)
(*     of 10 and clock values multiples of 1000 ms, so that every          *)
(*     interpolated coordinate is an integer.                              *)
(***************************************************************************)
EXTENDS Integers, Sequences, FiniteSets

VARIABLES state, isPlaying, playbackSpeed, interval, pending, nextReq,
          logsRun, lastOp, query, map

vars == <<state, isPlaying, playbackSpeed, interval, pending, nextReq,
          logsRun, lastOp, query, map>>

---------------------------------------------------------------------------
(* Bounds of the model *)

MaxRuns == 2

MaxLogLen == 3

---------------------------------------------------------------------------
(* Values *)

Null == "null"

NoData == [run |-> 0]

Num(n) == [kind |-> "number", val |-> n]

IsNum(v) == v.kind = "number"

SpeedOptionsWithZero == {0, 1, 2, 4, 10, 20}

SpeedOptions == {1, 2, 4, 10, 20}

DefaultSpeed == 2

TickIncrement(speed) == speed * 5

TickPeriodMs(speed) == 2000 \div speed

SampleTrains == {"T001", "T002"}

TrainChoices == {SampleTrains, {"T900"}}

Entry(t, id) == [time |-> t, train_id |-> id]

LogChoices ==
  { <<>>,
    <<Entry(0, "T001"), Entry(20, "T001")>>,
    <<Entry(0, "T001"), Entry(1, "T002"), Entry(35, "T001")>> }

MessageChoices == {"", "solver rejected"}

ThrownChoices ==
  { [isError |-> TRUE, message |-> "Network Error"],
    [isError |-> FALSE, message |-> ""] }

SeekTimes == {-10, 0, 15, 50}

---------------------------------------------------------------------------
(* Pure helpers *)

RECURSIVE MaxOf(_)
MaxOf(S) ==
  IF S = {} THEN 0
  ELSE LET x == CHOOSE y \in S : TRUE
           m == MaxOf(S \ {x})
       IN IF S = {x} THEN x ELSE IF x > m THEN x ELSE m

Times(logs) == { logs[i].time : i \in 1..Len(logs) }

MaxLogTimeOfLast(logs) ==
  IF Len(logs) > 0 THEN logs[Len(logs)].time ELSE 0

MaxLogTime(logs) == IF Len(logs) > 0 THEN MaxOf(Times(logs)) ELSE 0

(* The updater function the timer callback hands to setCurrentTime: a      *)
(* closure over the effect's playbackSpeed and maxLogTime.                 *)
Updater(speed, maxLogTime) ==
  [kind |-> "function", speed |-> speed, maxLogTime |-> maxLogTime]

(* What calling that updater on a previous time would do. *)
UpdaterNextTime(fn, prev) == prev + TickIncrement(fn.speed)

UpdaterReachesEnd(fn, prev) == UpdaterNextTime(fn, prev) >= fn.maxLogTime

UpdaterResult(fn, prev) ==
  IF UpdaterReachesEnd(fn, prev) THEN fn.maxLogTime
  ELSE UpdaterNextTime(fn, prev)

---------------------------------------------------------------------------
(* State updates of SimulationProvider *)

InitialState ==
  [isRunning |-> FALSE, logs |-> <<>>, metrics |-> NoData,
   network |-> NoData, currentTime |-> Num(0), trains |-> {},
   error |-> Null]

StartState(s) == [s EXCEPT !.isRunning = TRUE, !.error = Null]

SuccessState(s, response, trains) ==
  [s EXCEPT !.logs = response.logs, !.metrics = response.metrics,
            !.network = response.network, !.trains = trains,
            !.isRunning = FALSE, !.currentTime = Num(0)]

SuccessStateGAKeepsTime(s, response) ==
  [s EXCEPT !.logs = response.logs, !.metrics = response.metrics,
            !.network = response.network, !.isRunning = FALSE]

SuccessStateGA(s, response) ==
  [s EXCEPT !.logs = response.logs, !.metrics = response.metrics,
            !.network = response.network,
            !.isRunning = FALSE, !.currentTime = Num(0)]

OrDefaultNone(message, default) == message

OrDefault(message, default) == IF message = "" THEN default ELSE message

FailureStateDropsLog(s, message, default) ==
  [s EXCEPT !.error = OrDefault(message, default), !.isRunning = FALSE,
            !.logs = <<>>, !.currentTime = Num(0)]

FailureState(s, message, default) ==
  [s EXCEPT !.error = OrDefault(message, default), !.isRunning = FALSE]

CaughtMessage(err) ==
  IF err.isError THEN err.message ELSE "Unknown error occurred"

CaughtState(s, err) ==
  [s EXCEPT !.error = CaughtMessage(err), !.isRunning = FALSE]

ClearedStateKeepsError ==
  [isRunning |-> FALSE, logs |-> <<>>, metrics |-> NoData,
   network |-> NoData, currentTime |-> Num(0), trains |-> {},
   error |-> "Simulation failed"]

ClearedState ==
  [isRunning |-> FALSE, logs |-> <<>>, metrics |-> NoData,
   network |-> NoData, currentTime |-> Num(0), trains |-> {},
   error |-> Null]

SetCurrentTimeState(s, time) == [s EXCEPT !.currentTime = time]

DefaultMessage(api) ==
  IF api = "runSimulation" THEN "Simulation failed"
  ELSE "GA simulation failed"

---------------------------------------------------------------------------
(* The auto-play effect of SimulationControl *)

(* interval is the timer whose callback the last run of the effect        *)
(* created, with the values its closure captured; timers counts the        *)
(* setInterval timers that have been created and not cleared.              *)
NoInterval ==
  [active |-> FALSE, playbackSpeed |-> 0, maxLogTime |-> 0, timers |-> 0]

(* The cleanup the previous run of the effect returned, if it returned     *)
(* one: clearInterval(interval).                                           *)
Cleanup(prev) == IF prev.active THEN NoInterval ELSE prev

EffectWithoutGuard(prev, playing, logs, speed) ==
  [active |-> TRUE, playbackSpeed |-> speed,
   maxLogTime |-> MaxOf(Times(logs)), timers |-> 1]

EffectWithoutCleanup(prev, playing, logs, speed) ==
  IF playing /\ Len(logs) > 0
  THEN [active |-> TRUE, playbackSpeed |-> speed,
        maxLogTime |-> MaxOf(Times(logs)), timers |-> prev.timers + 1]
  ELSE prev

(* React runs the previous cleanup, then the effect body. *)
Effect(prev, playing, logs, speed) ==
  IF playing /\ Len(logs) > 0
  THEN [active |-> TRUE, playbackSpeed |-> speed,
        maxLogTime |-> MaxOf(Times(logs)),
        timers |-> Cleanup(prev).timers + 1]
  ELSE Cleanup(prev)

---------------------------------------------------------------------------
(* Responses of the solver service *)

Request(id, api, trains) == [id |-> id, api |-> api, trains |-> trains]

Responses(r) ==
  { [success |-> TRUE, logs |-> l, metrics |-> [run |-> r.id],
     network |-> [run |-> r.id], message |-> ""] : l \in LogChoices }
  \cup
  { [success |-> FALSE, logs |-> <<>>, metrics |-> NoData,
     network |-> NoData, message |-> m] : m \in MessageChoices }

---------------------------------------------------------------------------
(* Query functions of SimulationProvider *)

Tolerance == 4

Abs(x) == IF x < 0 THEN -x ELSE x

WithinToleranceInclusive(log, time) == Abs(log.time - time) <= Tolerance

WithinTolerance(log, time) == Abs(log.time - time) < Tolerance

(* state.logs.filter(log => log.train_id === trainId), as the indices of   *)
(* the kept entries in array order.                                        *)
TrainLogs(logs, trainId) ==
  SelectSeq([i \in 1..Len(logs) |-> i],
            LAMBDA i : logs[i].train_id = trainId)

(* trainLogs.find(...) || null: the first kept entry within the window. *)
getTrainAtTime(logs, trainId, time) ==
  LET trainLogs == TrainLogs(logs, trainId)
      hits == { k \in 1..Len(trainLogs) :
                  WithinTolerance(logs[trainLogs[k]], time) }
  IN IF hits = {} THEN 0
     ELSE trainLogs[CHOOSE k \in hits : \A j \in hits : k <= j]

(* state.logs.filter(log => Math.abs(log.time - time) < 1), as the        *)
(* indices of the kept entries in array order.                             *)
getTrainsAtTime(logs, time) ==
  SelectSeq([i \in 1..Len(logs) |-> i],
            LAMBDA i : WithinTolerance(logs[i], time))

NoQuery ==
  [op |-> "none", trainId |-> "", time |-> 0, result |-> 0,
   results |-> <<>>]

QueryTrainIds == {"T001", "T002", "T404"}

QueryTimes == {-4, 0, 1, 2, 3, 4, 5, 8, 12, 400}

QueryLogTimes == {0, 4, 8}

QueryEntries ==
  { Entry(t, id) : t \in QueryLogTimes, id \in {"T001", "T002"} }

(* Entries of one train are non-decreasing in time within a run's log. *)
TimeOrdered(logs) ==
  \A i, j \in 1..Len(logs) :
    (i < j /\ logs[i].train_id = logs[j].train_id)
      => logs[i].time <= logs[j].time

QueryLogs ==
  { l \in UNION { [1..n -> QueryEntries] : n \in 0..MaxLogLen } :
      TimeOrdered(l) }

---------------------------------------------------------------------------
(* NetworkMap: station lookup, interpolation and the rendered position *)

CycleMs == 10000

Station(id, x, y) == [id |-> id, position |-> <<x, y>>]

StationLists ==
  { <<Station("S1", 0, 0), Station("S2", 10, 0), Station("S3", 10, 20)>>,
    <<Station("S2", 10, 0), Station("S3", 10, 20)>> }

(* Values of train.currentStation / train.nextStation; "none" stands for  *)
(* an absent (undefined) optional field.                                   *)
StationRefs == {"S1", "S2", "S3", "none"}

NowChoices == {0, 1000, 5000, 9000, 15000}

(* stations.findIndex(s => s.id === id): the index from 1, 0 for -1. *)
FindIndex(stations, id) ==
  LET hits == { i \in 1..Len(stations) : stations[i].id = id }
  IN IF hits = {} THEN 0 ELSE CHOOSE i \in hits : \A j \in hits : i <= j

InterpolateCopiedX(origin, destination, now) ==
  << origin[1]
       + ((destination[1] - origin[1]) * (now % CycleMs)) \div CycleMs,
     origin[2]
       + ((destination[1] - origin[1]) * (now % CycleMs)) \div CycleMs >>

(* progress = (Date.now() % 10000) / 10000;                                *)
(* x = current.x + (next.x - current.x) * progress, and y alike.           *)
Interpolate(origin, destination, now) ==
  << origin[1]
       + ((destination[1] - origin[1]) * (now % CycleMs)) \div CycleMs,
     origin[2]
       + ((destination[2] - origin[2]) * (now % CycleMs)) \div CycleMs >>

(* The setTrainPositions updater, for the one train of the model. *)
NewPositions(prev, stations, train, now) ==
  LET currentStationIndex == FindIndex(stations, train.currentStation)
      nextStationIndex == FindIndex(stations, train.nextStation)
  IN IF currentStationIndex > 0 /\ nextStationIndex > 0
     THEN [id \in DOMAIN prev \cup {train.id} |->
             IF id = train.id
             THEN Interpolate(stations[currentStationIndex].position,
                              stations[nextStationIndex].position, now)
             ELSE prev[id]]
     ELSE IF currentStationIndex > 0
     THEN [id \in DOMAIN prev \cup {train.id} |->
             IF id = train.id
             THEN stations[currentStationIndex].position
             ELSE prev[id]]
     ELSE prev

(* The position the render draws the train at. *)
DisplayedPosition(m) ==
  IF m.isSimulating /\ m.train.id \in DOMAIN m.trainPositions
  THEN m.trainPositions[m.train.id]
  ELSE LET i == FindIndex(m.stations, m.train.currentStation)
       IN IF i > 0 THEN m.stations[i].position ELSE <<0, 0>>

TrainAt(currentStation, nextStation) ==
  [id |-> "T1", currentStation |-> currentStation,
   nextStation |-> nextStation]

InitialMap ==
  [stations |-> <<>>, train |-> TrainAt("none", "none"),
   isSimulating |-> FALSE, trainPositions |-> <<>>,
   op |-> "init", now |-> 0]

---------------------------------------------------------------------------
(* Initial state *)

Init ==
  /\ state = InitialState
  /\ isPlaying = FALSE
  /\ playbackSpeed = DefaultSpeed
  /\ interval = NoInterval
  /\ pending = {}
  /\ nextReq = 1
  /\ logsRun = 0
  /\ lastOp = "init"
  /\ query = NoQuery
  /\ map = InitialMap

---------------------------------------------------------------------------
(* Operations of the session (SimulationProvider) *)

StartRun(api, trains) ==
  /\ nextReq <= MaxRuns
  /\ state' = StartState(state)
  /\ pending' = pending \cup {Request(nextReq, api, trains)}
  /\ nextReq' = nextReq + 1
  /\ UNCHANGED <<isPlaying, playbackSpeed, logsRun>>
  /\ interval' = Effect(interval, isPlaying', state'.logs, playbackSpeed')
  /\ UNCHANGED <<query, map>>

RunSimulation ==
  /\ \E trains \in TrainChoices : StartRun("runSimulation", trains)
  /\ lastOp' = "runSimulation"

RunSimulationFromGA ==
  /\ StartRun("runSimulationFromGA", {})
  /\ lastOp' = "runSimulationFromGA"

Respond ==
  \E r \in pending : \E response \in Responses(r) :
    /\ pending' = pending \ {r}
    /\ IF response.success
       THEN /\ state' = IF r.api = "runSimulation"
                        THEN SuccessState(state, response, r.trains)
                        ELSE SuccessStateGA(state, response)
            /\ logsRun' = r.id
            /\ lastOp' = "installed"
       ELSE /\ state' = FailureState(state, response.message,
                                     DefaultMessage(r.api))
            /\ logsRun' = logsRun
            /\ lastOp' = "failed"
    /\ UNCHANGED <<isPlaying, playbackSpeed, nextReq>>
    /\ interval' = Effect(interval, isPlaying', state'.logs, playbackSpeed')
    /\ UNCHANGED <<query, map>>

Throw ==
  \E r \in pending : \E err \in ThrownChoices :
    /\ pending' = pending \ {r}
    /\ state' = CaughtState(state, err)
    /\ lastOp' = "threw"
    /\ UNCHANGED <<isPlaying, playbackSpeed, nextReq, logsRun>>
    /\ interval' = Effect(interval, isPlaying', state'.logs, playbackSpeed')
    /\ UNCHANGED <<query, map>>

ClearSimulation ==
  /\ state' = ClearedState
  /\ logsRun' = 0
  /\ lastOp' = "clearSimulation"
  /\ UNCHANGED <<isPlaying, playbackSpeed, pending, nextReq>>
  /\ interval' = Effect(interval, isPlaying', state'.logs, playbackSpeed')
  /\ UNCHANGED <<query, map>>

SetCurrentTime ==
  \E t \in SeekTimes :
    /\ state' = SetCurrentTimeState(state, Num(t))
    /\ lastOp' = "setCurrentTime"
    /\ UNCHANGED <<isPlaying, playbackSpeed, pending, nextReq, logsRun>>
    /\ interval' = Effect(interval, isPlaying', state'.logs, playbackSpeed')
    /\ UNCHANGED <<query, map>>

---------------------------------------------------------------------------
(* Operations of SimulationControl *)

HandlePlayAlwaysPlays ==
  /\ ~state.isRunning
  /\ isPlaying' = TRUE
  /\ UNCHANGED <<state, playbackSpeed, pending, nextReq, logsRun>>
  /\ interval' = Effect(interval, isPlaying', state'.logs, playbackSpeed')
  /\ UNCHANGED <<query, map>>
  /\ lastOp' = "handlePlay"

HandlePlayRestarts ==
  /\ ~state.isRunning
  /\ IF Len(state.logs) = 0
     THEN StartRun("runSimulation", SampleTrains)
     ELSE /\ isPlaying' = TRUE
          /\ state' = SetCurrentTimeState(state, Num(0))
          /\ UNCHANGED <<playbackSpeed, pending, nextReq, logsRun>>
          /\ interval' = Effect(interval, isPlaying', state'.logs, playbackSpeed')
          /\ UNCHANGED <<query, map>>
  /\ lastOp' = "handlePlay"

HandlePlay ==
  /\ ~state.isRunning
  /\ IF Len(state.logs) = 0
     THEN StartRun("runSimulation", SampleTrains)
     ELSE /\ isPlaying' = TRUE
          /\ UNCHANGED <<state, playbackSpeed, pending, nextReq, logsRun>>
          /\ interval' = Effect(interval, isPlaying', state'.logs, playbackSpeed')
          /\ UNCHANGED <<query, map>>
  /\ lastOp' = "handlePlay"

HandlePauseResetsTime ==
  /\ isPlaying
  /\ isPlaying' = FALSE
  /\ state' = SetCurrentTimeState(state, Num(0))
  /\ lastOp' = "handlePause"
  /\ UNCHANGED <<playbackSpeed, pending, nextReq, logsRun>>
  /\ interval' = Effect(interval, isPlaying', state'.logs, playbackSpeed')
  /\ UNCHANGED <<query, map>>

HandlePause ==
  /\ isPlaying
  /\ isPlaying' = FALSE
  /\ lastOp' = "handlePause"
  /\ UNCHANGED <<state, playbackSpeed, pending, nextReq, logsRun>>
  /\ interval' = Effect(interval, isPlaying', state'.logs, playbackSpeed')
  /\ UNCHANGED <<query, map>>

HandleStopKeepsTime ==
  /\ Len(state.logs) # 0
  /\ isPlaying' = FALSE
  /\ lastOp' = "handleStop"
  /\ UNCHANGED <<state, playbackSpeed, pending, nextReq, logsRun>>
  /\ interval' = Effect(interval, isPlaying', state'.logs, playbackSpeed')
  /\ UNCHANGED <<query, map>>

HandleStop ==
  /\ Len(state.logs) # 0
  /\ isPlaying' = FALSE
  /\ state' = SetCurrentTimeState(state, Num(0))
  /\ lastOp' = "handleStop"
  /\ UNCHANGED <<playbackSpeed, pending, nextReq, logsRun>>
  /\ interval' = Effect(interval, isPlaying', state'.logs, playbackSpeed')
  /\ UNCHANGED <<query, map>>

HandleResetWithoutClear ==
  /\ isPlaying' = FALSE
  /\ state' = SetCurrentTimeState(state, Num(0))
  /\ lastOp' = "handleReset"
  /\ UNCHANGED <<playbackSpeed, pending, nextReq, logsRun>>
  /\ interval' = Effect(interval, isPlaying', state'.logs, playbackSpeed')
  /\ UNCHANGED <<query, map>>

HandleReset ==
  /\ isPlaying' = FALSE
  /\ state' = ClearedState
  /\ logsRun' = 0
  /\ lastOp' = "handleReset"
  /\ UNCHANGED <<playbackSpeed, pending, nextReq>>
  /\ interval' = Effect(interval, isPlaying', state'.logs, playbackSpeed')
  /\ UNCHANGED <<query, map>>

SetPlaybackSpeed ==
  \E s \in SpeedOptions :
    /\ playbackSpeed' = s
    /\ lastOp' = "setPlaybackSpeed"
    /\ UNCHANGED <<state, isPlaying, pending, nextReq, logsRun>>
    /\ interval' = Effect(interval, isPlaying', state'.logs, playbackSpeed')
    /\ UNCHANGED <<query, map>>

Tick ==
  /\ interval.active
  /\ state' = SetCurrentTimeState(state,
                 Updater(interval.playbackSpeed, interval.maxLogTime))
  /\ lastOp' = "tick"
  /\ UNCHANGED <<isPlaying, playbackSpeed, pending, nextReq, logsRun>>
  /\ interval' = Effect(interval, isPlaying', state'.logs, playbackSpeed')
  /\ UNCHANGED <<query, map>>

---------------------------------------------------------------------------

Next ==
  \/ RunSimulation
  \/ RunSimulationFromGA
  \/ Respond
  \/ Throw
  \/ ClearSimulation
  \/ SetCurrentTime
  \/ HandlePlay
  \/ HandlePause
  \/ HandleStop
  \/ HandleReset
  \/ SetPlaybackSpeed
  \/ Tick

Spec == Init /\ [][Next]_vars

---------------------------------------------------------------------------
(* Undisturbed playback: the user and the solver act only while playback   *)
(* is not Playing; once Playing, only the timer runs.  setInterval keeps   *)
(* calling its callback while the interval exists, hence the weak          *)
(* fairness of Tick.                                                       *)

Idle == ~isPlaying

NextPlayback ==
  \/ Idle /\ HandlePlay
  \/ Idle /\ Respond
  \/ Idle /\ Throw
  \/ Idle /\ SetCurrentTime
  \/ Idle /\ SetPlaybackSpeed
  \/ Idle /\ HandleStop
  \/ Idle /\ HandleReset
  \/ Tick

SpecPlayback == Init /\ [][NextPlayback]_vars /\ WF_vars(Tick)

---------------------------------------------------------------------------
(* NetworkMap mounted with any of the station lists and any train. *)

Session == <<state, isPlaying, playbackSpeed, interval, pending, nextReq,
             logsRun, lastOp, query>>

InitMap ==
  /\ state = InitialState
  /\ isPlaying = FALSE
  /\ playbackSpeed = DefaultSpeed
  /\ interval = NoInterval
  /\ pending = {}
  /\ nextReq = 1
  /\ logsRun = 0
  /\ lastOp = "init"
  /\ query = NoQuery
  /\ \E stations \in StationLists :
       \E c \in StationRefs : \E n \in StationRefs :
         map = [InitialMap EXCEPT !.stations = stations,
                                  !.train = TrainAt(c, n)]

(* The parent renders the map with new props. *)
SetTrain ==
  \E c \in StationRefs : \E n \in StationRefs :
    /\ map' = [map EXCEPT !.train = TrainAt(c, n), !.op = "props"]
    /\ UNCHANGED Session

SetSimulating ==
  \E b \in BOOLEAN :
    /\ map' = [map EXCEPT !.isSimulating = b, !.op = "props"]
    /\ UNCHANGED Session

(* The callback of the 100 ms interval, which exists while isSimulating. *)
PositionTick ==
  \E now \in NowChoices :
    /\ map.isSimulating
    /\ map' = [map EXCEPT
                 !.trainPositions =
                   NewPositions(map.trainPositions, map.stations,
                                map.train, now),
                 !.op = "tick", !.now = now]
    /\ UNCHANGED Session

NextMap ==
  \/ SetTrain
  \/ SetSimulating
  \/ PositionTick

SpecMap == InitMap /\ [][NextMap]_vars

---------------------------------------------------------------------------
(* Queries on an installed log: the session after one successful run whose *)
(* response carried any of the logs of QueryLogs.                          *)

InitQuery ==
  /\ \E l \in QueryLogs :
       state = SuccessState(InitialState,
                 [success |-> TRUE, logs |-> l, metrics |-> [run |-> 1],
                  network |-> [run |-> 1], message |-> ""],
                 SampleTrains)
  /\ isPlaying = FALSE
  /\ playbackSpeed = DefaultSpeed
  /\ interval = NoInterval
  /\ pending = {}
  /\ nextReq = 2
  /\ logsRun = 1
  /\ lastOp = "installed"
  /\ query = NoQuery
  /\ map = InitialMap

QueryTrainAtTime ==
  \E trainId \in QueryTrainIds : \E time \in QueryTimes :
    /\ query' = [op |-> "getTrainAtTime", trainId |-> trainId,
                 time |-> time,
                 result |-> getTrainAtTime(state.logs, trainId, time),
                 results |-> <<>>]
    /\ UNCHANGED <<state, isPlaying, playbackSpeed, interval, pending,
                   nextReq, logsRun, lastOp, map>>

QueryTrainsAtTime ==
  \E time \in QueryTimes :
    /\ query' = [op |-> "getTrainsAtTime", trainId |-> "", time |-> time,
                 result |-> 0,
                 results |-> getTrainsAtTime(state.logs, time)]
    /\ UNCHANGED <<state, isPlaying, playbackSpeed, interval, pending,
                   nextReq, logsRun, lastOp, map>>

RenderMaxLogTime ==
  /\ query' = [op |-> "maxLogTime", trainId |-> "", time |-> 0,
               result |-> MaxLogTime(state.logs), results |-> <<>>]
  /\ UNCHANGED <<state, isPlaying, playbackSpeed, interval, pending,
                 nextReq, logsRun, lastOp, map>>

NextQuery ==
  \/ QueryTrainAtTime
  \/ QueryTrainsAtTime
  \/ RenderMaxLogTime

SpecQuery == InitQuery /\ [][NextQuery]_vars

---------------------------------------------------------------------------
(* Step and state predicates used by the properties *)

SessionData(s) == <<s.logs, s.network, s.metrics, s.currentTime>>

StartStep == nextReq' = nextReq + 1

FailedStep == lastOp' \in {"failed", "threw"}

TickStep == lastOp' = "tick"

TimerFn == Updater(interval.playbackSpeed, interval.maxLogTime)

---------------------------------------------------------------------------
(* C1: a failed run (success=false, or a thrown request) leaves logs,      *)
(* network, metrics and currentTime as they were: neither the step that    *)
(* starts a run nor the step that handles its failure changes them.        *)
C1_FailedRunLeavesData ==
  [][(StartStep \/ FailedStep) => SessionData(state') = SessionData(state)]_vars

C1_Witness ==
  /\ lastOp \in {"failed", "threw"}
  /\ Len(state.logs) > 0
  /\ state.currentTime = Num(15)
  /\ state.error # Null

(* C2: right after a successful run installs its log, currentTime is 0     *)
(* and playback is not playing.                                            *)
C2_InstallStopsPlayback ==
  lastOp = "installed" => (state.currentTime = Num(0) /\ ~isPlaying)

(* C3: while a run is in flight and isRunning is true, a second call to    *)
(* runSimulation / runSimulationFromGA sends no request and changes no     *)
(* state.                                                                  *)
C3_SecondRunRejected ==
  [][(state.isRunning /\ pending # {} /\ StartStep)
       => UNCHANGED <<state, pending>>]_vars

(* C4: the result of an earlier-started run never replaces the installed   *)
(* result of a later-started run: an install never moves logs, metrics or  *)
(* network back to an older run.                                           *)
C4_StaleResultDiscarded ==
  [][lastOp' = "installed"
       => /\ logsRun' >= logsRun
          /\ state'.metrics.run >= state.metrics.run
          /\ state'.network.run >= state.network.run]_vars

(* C5: logs, metrics and network always come from the same run (or are     *)
(* all initial), and a newly installed log is paired with currentTime 0.   *)
C5_DataFromOneRun ==
  /\ state.metrics.run = logsRun
  /\ state.network.run = logsRun
  /\ (logsRun = 0 => state.logs = <<>>)
  /\ (lastOp = "installed" => state.currentTime = Num(0))

C5_Witness ==
  /\ lastOp = "installed"
  /\ logsRun = 2
  /\ Len(state.logs) > 0
  /\ isPlaying

(* C6: after any timer tick, currentTime is a number within                *)
(* [0, maxLogTime].                                                        *)
C6_TickWithinRange ==
  lastOp = "tick"
    => /\ IsNum(state.currentTime)
       /\ state.currentTime.val >= 0
       /\ state.currentTime.val <= MaxLogTime(state.logs)

(* C7: a tick that would reach or pass maxLogTime sets currentTime to      *)
(* exactly maxLogTime and leaves Playing.                                  *)
C7_AutopauseAtEnd ==
  [][(TickStep /\ IsNum(state.currentTime)
        /\ UpdaterReachesEnd(TimerFn, state.currentTime.val))
       => (state'.currentTime = Num(interval.maxLogTime) /\ ~isPlaying')]_vars

(* C8: a tick in Playing advances currentTime by a numeric amount whose    *)
(* rate per unit of real time is the speed multiplier times the rate at    *)
(* speed 1 (gain / period at speed s = s * gain / period at 1x).           *)
C8_GainProportionalToSpeed ==
  [][(TickStep /\ IsNum(state.currentTime)
        /\ ~UpdaterReachesEnd(TimerFn, state.currentTime.val))
       => /\ IsNum(state'.currentTime)
          /\ 2 * (state'.currentTime.val - state.currentTime.val)
               * TickPeriodMs(DefaultSpeed)
             = interval.playbackSpeed * TickIncrement(DefaultSpeed)
               * TickPeriodMs(interval.playbackSpeed)]_vars

(* C9: a timer tick happens only in Playing on a non-empty log: no tick    *)
(* step is taken from a state that is not playing or whose log is empty.   *)
C9_TickOnlyWhenPlaying ==
  [][TickStep => (isPlaying /\ Len(state.logs) > 0)]_vars

C9_Witness ==
  /\ ~isPlaying
  /\ Len(state.logs) > 0
  /\ ~interval.active
  /\ ~IsNum(state.currentTime)

C11_SeekClamped ==
  lastOp = "setCurrentTime"
    => /\ IsNum(state.currentTime)
       /\ state.currentTime.val >= 0
       /\ state.currentTime.val <= MaxLogTime(state.logs)

(* C12: stop() from any play state leaves playback not playing and         *)
(* currentTime equal to 0.                                                 *)
C12_StopResetsClock ==
  [][lastOp' = "handleStop"
       => (~isPlaying' /\ state'.currentTime = Num(0)
           /\ ~interval'.active)]_vars

C12_Witness ==
  /\ lastOp = "handleStop"
  /\ ~isPlaying
  /\ state.currentTime = Num(0)
  /\ Len(state.logs) > 0
  /\ playbackSpeed = 20

(* C13: reset() from any state leaves playback not playing, currentTime    *)
(* equal to 0 and the log discarded (logs empty, metrics and network       *)
(* null).                                                                  *)
C13_ResetDiscardsLog ==
  [][lastOp' = "handleReset"
       => /\ ~isPlaying'
          /\ state'.currentTime = Num(0)
          /\ state'.logs = <<>>
          /\ state'.metrics = NoData
          /\ state'.network = NoData]_vars

C13_Witness ==
  /\ lastOp = "handleReset"
  /\ ~isPlaying
  /\ state.logs = <<>>
  /\ pending # {}
  /\ nextReq = 3

(* C14: pause() moves Playing to not playing and changes nothing else;     *)
(* play() on a non-empty log ends in Playing and changes nothing else, so  *)
(* it is a no-op when already Playing.                                     *)
C14_PlayPauseTransitions ==
  [][/\ (lastOp' = "handlePause"
           => (isPlaying /\ ~isPlaying'
               /\ UNCHANGED <<state, playbackSpeed, pending>>))
     /\ ((lastOp' = "handlePlay" /\ Len(state.logs) > 0)
           => (isPlaying' /\ interval'.active
               /\ UNCHANGED <<state, playbackSpeed, pending>>))]_vars

C14_Witness ==
  /\ lastOp = "handlePlay"
  /\ isPlaying
  /\ ~IsNum(state.currentTime)
  /\ interval.active

(* C15: after clearSimulation every field of the session state equals its  *)
(* value at provider creation.                                             *)
C15_ClearEqualsFresh ==
  lastOp = "clearSimulation"
    => /\ state.isRunning = FALSE
       /\ state.logs = <<>>
       /\ state.metrics = NoData
       /\ state.network = NoData
       /\ state.currentTime = Num(0)
       /\ state.trains = {}
       /\ state.error = Null
       /\ state = InitialState

C15_Witness ==
  /\ lastOp = "clearSimulation"
  /\ pending # {}
  /\ isPlaying
  /\ nextReq = 3

---------------------------------------------------------------------------
(* Predicates on the last getTrainAtTime query *)

AskedTrainAtTime == query.op = "getTrainAtTime"

OfAskedTrain(j) == state.logs[j].train_id = query.trainId

Distance(j) == Abs(state.logs[j].time - query.time)

(* C18: getTrainAtTime never returns an entry when a strictly closer       *)
(* entry of the same train exists in the log: the returned entry           *)
(* minimizes |entry.time - t| over that train's entries.                   *)
C18_ReturnsNearest ==
  (AskedTrainAtTime /\ query.result # 0)
    => \A j \in 1..Len(state.logs) :
         OfAskedTrain(j) => Distance(j) >= Distance(query.result)

(* C19: when two entries of the train are at equal distance from the       *)
(* query time, getTrainAtTime returns the one later in array order: no     *)
(* entry of the train after the returned one is at the same distance.      *)
C19_TieReturnsLater ==
  (AskedTrainAtTime /\ query.result # 0)
    => \A j \in 1..Len(state.logs) :
         (OfAskedTrain(j) /\ Distance(j) = Distance(query.result))
           => j <= query.result

C21_OneEntryPerTrain ==
  query.op = "getTrainsAtTime"
    => \A a, b \in 1..Len(query.results) :
         a # b => state.logs[query.results[a]].train_id
                    # state.logs[query.results[b]].train_id

(* C22: the maximum log time used by playback is the largest time over     *)
(* all log entries, and 0 when the log is empty.                           *)
C22_MaxLogTimeIsLargest ==
  query.op = "maxLogTime"
    => IF Len(state.logs) = 0
       THEN query.result = 0
       ELSE /\ \A i \in 1..Len(state.logs) :
                 state.logs[i].time <= query.result
            /\ \E i \in 1..Len(state.logs) :
                 state.logs[i].time = query.result

C22_Witness ==
  /\ query.op = "maxLogTime"
  /\ Len(state.logs) = 3
  /\ query.result = 8
  /\ state.logs[3].time = 0

(* C25: currentTime is always a number: after a timer tick the stored      *)
(* currentTime is the number the updater returns for the previous          *)
(* currentTime, never the updater function itself.                         *)
C25_TickStoresNumber ==
  [][TickStep
       => /\ IsNum(state'.currentTime)
          /\ (IsNum(state.currentTime)
                => state'.currentTime
                     = Num(UpdaterResult(TimerFn, state.currentTime.val)))]_vars

(* C27: isRunning is true exactly while at least one run request is        *)
(* outstanding.                                                            *)
C27_RunningIffPending ==
  state.isRunning <=> (pending # {})

(* C28: a clearSimulation or Reset issued while a run is in flight is      *)
(* final: the response of that run, arriving next, leaves the state equal  *)
(* to a fresh session.                                                     *)
C28_ClearIsFinal ==
  [][(lastOp \in {"clearSimulation", "handleReset"} /\ pending # {}
        /\ lastOp' \in {"installed", "failed", "threw"})
       => state' = InitialState]_vars

(* C30: pause() and a playback-speed change leave currentTime, logs,       *)
(* metrics and network unchanged, and play() on a non-empty log leaves     *)
(* currentTime where it was, so a play() after pause() resumes from the    *)
(* paused time.                                                            *)
C30_PauseAndSpeedKeepTime ==
  [][/\ (lastOp' \in {"handlePause", "setPlaybackSpeed"}
           => SessionData(state') = SessionData(state))
     /\ ((lastOp' = "handlePlay" /\ Len(state.logs) > 0)
           => SessionData(state') = SessionData(state))]_vars

C30_Witness ==
  /\ lastOp = "handlePlay"
  /\ isPlaying
  /\ state.currentTime = Num(15)
  /\ playbackSpeed = 10

(* C29: at most one playback timer is active at any time, and a timer      *)
(* exists only while playback is Playing on a non-empty log.               *)
C29_SingleTimer ==
  /\ interval.timers <= 1
  /\ (interval.timers = 1 <=> interval.active)
  /\ (interval.timers >= 1 => (isPlaying /\ Len(state.logs) > 0))

C29_Witness ==
  /\ lastOp = "installed"
  /\ logsRun = 2
  /\ interval.timers = 1
  /\ interval.playbackSpeed = 20
  /\ interval.maxLogTime = 35

(* C26: once playback is Playing on a non-empty log with a positive speed  *)
(* and nothing but the timer acts, currentTime eventually equals           *)
(* maxLogTime and playback leaves Playing.                                 *)
C26_PlaybackReachesEnd ==
  (isPlaying /\ Len(state.logs) > 0 /\ playbackSpeed > 0)
    ~> (~isPlaying /\ state.currentTime = Num(MaxLogTime(state.logs)))

---------------------------------------------------------------------------
(* Predicates on the NetworkMap *)

Resolves(id) == \E i \in 1..Len(map.stations) : map.stations[i].id = id

PositionOf(id) ==
  LET i == CHOOSE j \in 1..Len(map.stations) : map.stations[j].id = id
  IN map.stations[i].position

BothResolve == Resolves(map.train.currentStation)
                 /\ Resolves(map.train.nextStation)

Stored == map.trainPositions[map.train.id]

(* C23: right after a timer callback, a train whose current and next       *)
(* stations both resolve is stored and drawn at                            *)
(* origin + (destination - origin) * progress in each coordinate, where    *)
(* progress = (now mod 10000) / 10000; from (0,0) to (10,0) at progress    *)
(* 0.5 that is (5,0).                                                      *)
C23_LinearInterpolation ==
  (map.op = "tick" /\ BothResolve)
    => /\ map.train.id \in DOMAIN map.trainPositions
       /\ DisplayedPosition(map) = Stored
       /\ \A k \in 1..2 :
            (Stored[k] - PositionOf(map.train.currentStation)[k]) * 10000
              = (PositionOf(map.train.nextStation)[k]
                   - PositionOf(map.train.currentStation)[k])
                * (map.now % 10000)
       /\ ((map.train.currentStation = "S1" /\ map.train.nextStation = "S2"
              /\ map.now % 10000 = 5000)
             => Stored = <<5, 0>>)

C23_Witness ==
  /\ map.op = "tick"
  /\ map.train.currentStation = "S1"
  /\ map.train.nextStation = "S2"
  /\ Len(map.stations) = 3
  /\ map.now = 15000
  /\ DisplayedPosition(map) = <<5, 0>>

(* C24: right after a timer callback, a train with an unresolved waypoint  *)
(* is drawn at the position of a station of the list (a resolved           *)
(* waypoint), never at a default coordinate.                               *)
C24_UnresolvedHeldAtWaypoint ==
  (map.op = "tick" /\ ~BothResolve)
    => \E i \in 1..Len(map.stations) :
         DisplayedPosition(map) = map.stations[i].position

====
